---- MODULE Spec2Model ----
(***************************************************************************)
(* Model of the episode-selection and queue-generation core of the        *)
(* random-episodes tracker (helpers: src/unnamed/part_000) together with  *)
(* the storage read it falls back on (src/data.js).                       *)
(*                                                                         *)
(* JavaScript values are modelled as tagged records so that null/undefined *)
(* arguments and missing fields can be told apart from arrays and objects. *)
(* Arrays live on a heap of named objects: a reference is the name of the  *)
(* object (for an array) or the 1-based position of an element inside it   *)
(* (for a show of a collection, an episode of a show); position 0 is the   *)
(* null reference.                                                         *)
(*                                                                         *)
(* The inputs are the collections the stored data can hold: episodes that  *)
(* pass validateEpisode (season, episode number and runtime at least 1),   *)
(* in any array order, with ids that nothing in the code checks for        *)
(* uniqueness, in shows whose episodes field may be missing.               *)
(***************************************************************************)
EXTENDS Integers, Sequences, FiniteSets, TLC

\* ------------------------------------------------------------------------
\* Bounds of the model and input domains
\* ------------------------------------------------------------------------

\* The number of shows in an input collection.
ShowCounts == {0, 1, 2}

\* At most this many episodes in all the shows of an input collection together.
MaxTotalEpisodes == 2

\* Identifiers are only ever compared for equality: two of each kind give both
\* distinct and shared ids (generateId is not consulted by an import, so the
\* stored collection may hold shows or episodes that share an id).
ShowIds == {1, 2}
EpisodeIds == {1, 2}

\* Position in watch order and length of an episode: S01E01 and S02E01 of 30
\* minutes, S01E02 of 45. Runtimes are positive (validateEpisode, the add-show
\* form and the metadata lookup reject or replace a runtime that is not >= 1).
EpisodeKinds ==
    { [season |-> 1, episodeNumber |-> 1, runtime |-> 30],
      [season |-> 1, episodeNumber |-> 2, runtime |-> 45],
      [season |-> 2, episodeNumber |-> 1, runtime |-> 30] }

\* Targets handed to generateCouchPotatoQueue, in minutes: a negative one,
\* zero, and two that one or two episodes reach.
Goals == {-30, 0, 60, 90}

\* ------------------------------------------------------------------------
\* JavaScript values
\* ------------------------------------------------------------------------

\* null / undefined: a missing argument or a missing field.
Undefined == [type |-> "undefined"]

\* An array value with the given elements.
Arr(s) == [type |-> "array", items |-> s]

\* !v is false exactly for arrays and objects (null and undefined are falsy).
Truthy(v) == v.type # "undefined"

\* The null reference returned by the find-like functions.
NoRef == 0

\* Episode objects (title and order are carried along untouched by every
\* operation modelled here and are left out).
Episodes ==
    { [id |-> i, season |-> k.season, episodeNumber |-> k.episodeNumber,
       runtime |-> k.runtime, watched |-> w] :
        i \in EpisodeIds, k \in EpisodeKinds, w \in BOOLEAN }

\* A show object; its episodes field may be missing.
ShowObj(id, episodes) == [type |-> "object", id |-> id, episodes |-> episodes]

RECURSIVE SumTo(_, _)
SumTo(f, k) == IF k = 0 THEN 0 ELSE f[k] + SumTo(f, k - 1)

\* The collection of k shows with the given ids whose i-th show has the next
\* counts[i] episodes of flat, or no episodes field when missing[i].
BuildShows(k, ids, counts, missing, flat) ==
    [i \in 1..k |->
        ShowObj(ids[i],
                IF missing[i] THEN Undefined
                ELSE Arr([j \in 1..counts[i] |-> flat[SumTo(counts, i - 1) + j]]))]

\* ------------------------------------------------------------------------
\* Core randomizer functions (helpers)
\* ------------------------------------------------------------------------

\* Faulty comparator: the season is ignored.
CompareEpisodeNumberOnly(a, b) == a.episodeNumber - b.episodeNumber

\* The comparator of getNextUnwatchedEpisode: by season, then episode number.
CompareEpisodes(a, b) ==
    IF a.season # b.season
    THEN a.season - b.season
    ELSE a.episodeNumber - b.episodeNumber

\* Faulty insertion: position i goes in front of the positions that compare
\* equal, so episodes with the same key come out in reverse array order.
RECURSIVE InsertBeforeTies(_, _, _)
InsertBeforeTies(eps, order, i) ==
    IF order = <<>> THEN <<i>>
    ELSE IF CompareEpisodes(eps[Head(order)], eps[i]) >= 0
         THEN <<i>> \o order
         ELSE <<Head(order)>> \o InsertBeforeTies(eps, Tail(order), i)

\* The positions of order with position i inserted behind every position
\* that does not compare greater (the sort is stable).
RECURSIVE InsertStable(_, _, _)
InsertStable(eps, order, i) ==
    IF order = <<>> THEN <<i>>
    ELSE IF CompareEpisodes(eps[Head(order)], eps[i]) > 0
         THEN <<i>> \o order
         ELSE <<Head(order)>> \o InsertStable(eps, Tail(order), i)

\* [...episodes].sort(comparator): the positions of the first n episodes in
\* sorted order. The array itself is not reordered: the sort works on a copy.
RECURSIVE SortedPositions(_, _)
SortedPositions(eps, n) ==
    IF n = 0 THEN <<>>
    ELSE InsertStable(eps, SortedPositions(eps, n - 1), n)

\* Faulty find: the negation is lost and the first watched episode is found.
RECURSIVE FindWatched(_, _)
FindWatched(eps, order) ==
    IF order = <<>> THEN NoRef
    ELSE IF eps[Head(order)].watched THEN Head(order)
         ELSE FindWatched(eps, Tail(order))

\* sortedEpisodes.find(ep => !ep.watched) || null, as a position in eps.
RECURSIVE FindUnwatched(_, _)
FindUnwatched(eps, order) ==
    IF order = <<>> THEN NoRef
    ELSE IF ~eps[Head(order)].watched THEN Head(order)
         ELSE FindUnwatched(eps, Tail(order))

\* getNextUnwatchedEpisode(show): the position in show.episodes of the next
\* unwatched episode, or NoRef.
getNextUnwatchedEpisode(show) ==
    IF ~Truthy(show) THEN NoRef
    ELSE IF ~Truthy(show.episodes) THEN NoRef
    ELSE IF Len(show.episodes.items) = 0 THEN NoRef
    ELSE LET eps == show.episodes.items
             sortedEpisodes == SortedPositions(eps, Len(eps))
         IN  FindUnwatched(eps, sortedEpisodes)

\* Faulty sort: the show's own array is sorted, not a copy of it.
SortedInPlace(eps) ==
    [i \in 1..Len(eps) |-> eps[SortedPositions(eps, Len(eps))[i]]]

\* show.episodes once [...show.episodes].sort(comparator) has run: the spread
\* makes a new array and the sort reorders that one, so the show's array has
\* the elements it had, each in its position.
ArrayAfterSort(eps) == eps

\* The show object as a call of getNextUnwatchedEpisode leaves it (nothing is
\* touched when the function returns before the sort).
ShowAfterGetNext(show) ==
    IF ~Truthy(show) THEN show
    ELSE IF ~Truthy(show.episodes) THEN show
    ELSE IF Len(show.episodes.items) = 0 THEN show
    ELSE [show EXCEPT !.episodes = Arr(ArrayAfterSort(show.episodes.items))]

\* Faulty filter: the test of the watched flag is lost and a show passes as
\* soon as it has an episode.
SomeEpisode(show) ==
    /\ Truthy(show.episodes)
    /\ Len(show.episodes.items) > 0

\* Faulty filter: every episode, not some episode, has to be unwatched.
EveryUnwatched(show) ==
    /\ Truthy(show.episodes)
    /\ \A j \in 1..Len(show.episodes.items) : ~show.episodes.items[j].watched

\* show.episodes && show.episodes.some(ep => !ep.watched)
SomeUnwatched(show) ==
    /\ Truthy(show.episodes)
    /\ \E j \in 1..Len(show.episodes.items) : ~show.episodes.items[j].watched

\* shows.filter(...): the positions, in order, of the first n shows that have
\* an unwatched episode.
RECURSIVE FilterUnwatched(_, _)
FilterUnwatched(items, n) ==
    IF n = 0 THEN <<>>
    ELSE FilterUnwatched(items, n - 1)
            \o (IF SomeUnwatched(items[n]) THEN <<n>> ELSE <<>>)

\* The shows of a collection value that have an unwatched episode.
showsWithUnwatched(shows) ==
    IF ~Truthy(shows) THEN <<>>
    ELSE FilterUnwatched(shows.items, Len(shows.items))

\* The values Math.floor(Math.random() * showsWithUnwatched.length) can take;
\* nothing is drawn when the function returns before that line.
RandomIndices(shows) ==
    IF showsWithUnwatched(shows) = <<>> THEN {0}
    ELSE 0..(Len(showsWithUnwatched(shows)) - 1)

\* Faulty pick: the random index is used on the unfiltered array.
PickUnfiltered(filtered, randomIndex) == randomIndex + 1

\* Faulty pick: the random index is halved, so the shows in the first half of
\* the filtered array are picked twice as often and the rest never.
PickHalved(filtered, randomIndex) == filtered[(randomIndex \div 2) + 1]

\* showsWithUnwatched[randomIndex] (arrays are 0-based in the source).
PickAt(filtered, randomIndex) == filtered[randomIndex + 1]

\* pickRandomShowWithUnwatchedEpisodes(shows): the position in shows of the
\* show picked with the given random index, or NoRef.
pickRandomShowWithUnwatchedEpisodes(shows, randomIndex) ==
    IF ~Truthy(shows) THEN NoRef
    ELSE IF Len(shows.items) = 0 THEN NoRef
    ELSE IF Len(showsWithUnwatched(shows)) = 0 THEN NoRef
    ELSE PickAt(showsWithUnwatched(shows), randomIndex)

\* The null result of pickRandomEpisode.
NoResult == [show |-> NoRef, episode |-> NoRef]

\* pickRandomEpisode(shows): {show, episode} as positions, or NoResult.
pickRandomEpisode(shows, randomIndex) ==
    LET show == pickRandomShowWithUnwatchedEpisodes(shows, randomIndex)
    IN  IF show = NoRef THEN NoResult
        ELSE LET episode == getNextUnwatchedEpisode(shows.items[show])
             IN  IF episode = NoRef THEN NoResult
                 ELSE [show |-> show, episode |-> episode]

\* array.find(x => x.id === id): the first position holding that id, or NoRef.
RECURSIVE FindById(_, _, _)
FindById(items, id, from) ==
    IF from > Len(items) THEN NoRef
    ELSE IF items[from].id = id THEN from
    ELSE FindById(items, id, from + 1)

\* Faulty projection: the runtime is cut to at most half an hour.
QueueEntryCut(show, episode) ==
    [showId |-> show.id, episodeId |-> episode.id, season |-> episode.season,
     episodeNumber |-> episode.episodeNumber,
     runtime |-> IF episode.runtime > 30 THEN 30 ELSE episode.runtime,
     watched |-> FALSE]

\* The queue entry projected from a picked show and episode.
QueueEntry(show, episode) ==
    [showId |-> show.id, episodeId |-> episode.id, season |-> episode.season,
     episodeNumber |-> episode.episodeNumber, runtime |-> episode.runtime,
     watched |-> FALSE]

\* Faulty loop condition: the loop runs until the target is exceeded by
\* half an hour.
LoopConditionLate(total, goal) == total < goal + 30

\* Faulty loop condition: <= in place of <.
LoopConditionInclusive(total, goal) == total <= goal

\* while (totalRuntime < minutesGoal)
LoopCondition(total, goal) == total < goal

\* Faulty accumulation: = in place of +=.
AssignRuntime(total, episode) == episode.runtime

\* totalRuntime += episode.runtime
AddRuntime(total, episode) == total + episode.runtime

\* The show whose episode is marked in the copy: found again by the id of
\* the picked show.
ShowInCopy(items, show) == FindById(items, items[show].id, 1)

\* The episode marked in the copy: found again by the id of the picked
\* episode among the episodes of showInCopy.
EpInCopy(items, showInCopy, show, episode) ==
    FindById(items[showInCopy].episodes.items,
             items[show].episodes.items[episode].id, 1)

\* epInCopy.watched = true
SetWatched(items, s, e) ==
    [items EXCEPT ![s].episodes.items[e].watched = TRUE]

\* ------------------------------------------------------------------------
\* Progress calculation helpers
\* ------------------------------------------------------------------------

\* JavaScript numbers are IEEE 754 doubles. A positive double is modelled as
\* its 53 significant bits (most significant first, the first one set) and the
\* power of two the integer they spell is scaled by; each operation computes
\* the exact result and rounds it to 53 bits, ties to even.

\* The double 0.
Zero == [man |-> <<>>, exp |-> 0]

\* The least k with w * 2^k >= t, for w >= 1.
RECURSIVE NormShift(_, _)
NormShift(w, t) == IF w >= t THEN 0 ELSE 1 + NormShift(2 * w, t)

RECURSIVE Pow2(_)
Pow2(k) == IF k = 0 THEN 1 ELSE 2 * Pow2(k - 1)

\* Long division: acc followed by the next n bits of r / t (r < t), and the
\* remainder left after them.
RECURSIVE DivBits(_, _, _, _)
DivBits(r, t, n, acc) ==
    IF n = 0 THEN [bits |-> acc, rem |-> r]
    ELSE IF 2 * r >= t THEN DivBits(2 * r - t, t, n - 1, Append(acc, 1))
    ELSE DivBits(2 * r, t, n - 1, Append(acc, 0))

\* The last position of bits holding a 0, or 0 when there is none.
RECURSIVE CarryAt(_, _)
CarryAt(bits, i) ==
    IF i = 0 THEN 0 ELSE IF bits[i] = 0 THEN i ELSE CarryAt(bits, i - 1)

\* The bits of the number spelled by bits, plus one.
AddOne(bits) ==
    LET z == CarryAt(bits, Len(bits))
    IN  IF z = 0 THEN <<1>> \o [i \in 1..Len(bits) |-> 0]
        ELSE [i \in 1..Len(bits) |->
                IF i < z THEN bits[i] ELSE IF i = z THEN 1 ELSE 0]

\* The double nearest to (the integer spelled by bits, of 54 bits or more,
\* plus a fraction when inexact) * 2^exp: 53 bits are kept and the rest
\* decides the rounding, an exact half going to the even neighbour.
RoundToDouble(bits, exp, inexact) ==
    LET kept == SubSeq(bits, 1, 53)
        sticky == inexact \/ \E i \in 55..Len(bits) : bits[i] = 1
        up == bits[54] = 1 /\ (sticky \/ kept[53] = 1)
        m == IF up THEN AddOne(kept) ELSE kept
        e == exp + (Len(bits) - 53)
    IN  IF Len(m) = 54 THEN [man |-> SubSeq(m, 1, 53), exp |-> e + 1]
        ELSE [man |-> m, exp |-> e]

\* w / t for integers 0 <= w <= t, t >= 1.
DoubleDivide(w, t) ==
    IF w = 0 THEN Zero
    ELSE LET k == NormShift(w, t)
             d == DivBits(w * Pow2(k) - t, t, 53, <<1>>)
         IN  RoundToDouble(d.bits, -53 - k, d.rem # 0)

\* The bits of a natural number, none for 0.
RECURSIVE BitsOf(_)
BitsOf(n) == IF n = 0 THEN <<>> ELSE BitsOf(n \div 2) \o <<n % 2>>

\* The bits of the product of the first i bits of bits (as the high part of
\* the number) and c, worked from the last bit up with a running carry.
RECURSIVE TimesSmall(_, _, _, _, _)
TimesSmall(bits, i, c, carry, acc) ==
    IF i = 0 THEN BitsOf(carry) \o acc
    ELSE TimesSmall(bits, i - 1, c, (c * bits[i] + carry) \div 2,
                    <<(c * bits[i] + carry) % 2>> \o acc)

\* x * c for a double x and an integer c >= 2.
DoubleTimes(x, c) ==
    IF x = Zero THEN Zero
    ELSE RoundToDouble(TimesSmall(x.man, 53, c, 0, <<>>), x.exp, FALSE)

\* The number spelled by the first n bits of bits.
RECURSIVE BitsValue(_, _)
BitsValue(bits, n) ==
    IF n = 0 THEN 0 ELSE 2 * BitsValue(bits, n - 1) + bits[n]

\* Faulty rounding: Math.floor in place of Math.round.
MathFloor(x) ==
    IF x = Zero THEN 0
    ELSE IF 53 + x.exp < 0 THEN 0
    ELSE BitsValue(x.man, 53 + x.exp)

\* Math.round(x) for a double 0 <= x < 2^52: the integer part, plus one when
\* the fraction is a half or more (its first bit is set).
MathRound(x) ==
    IF x = Zero THEN 0
    ELSE IF 53 + x.exp < 0 THEN 0
    ELSE BitsValue(x.man, 53 + x.exp) + x.man[53 + x.exp + 1]

\* show.episodes.filter(ep => ep.watched).length, over the first n episodes.
RECURSIVE CountWatched(_, _)
CountWatched(eps, n) ==
    IF n = 0 THEN 0
    ELSE CountWatched(eps, n - 1) + (IF eps[n].watched THEN 1 ELSE 0)

\* calculateShowProgress(show): {watched, total, percentage}.
calculateShowProgress(show) ==
    IF ~Truthy(show) THEN [watched |-> 0, total |-> 0, percentage |-> 0]
    ELSE IF ~Truthy(show.episodes)
    THEN [watched |-> 0, total |-> 0, percentage |-> 0]
    ELSE IF Len(show.episodes.items) = 0
    THEN [watched |-> 0, total |-> 0, percentage |-> 0]
    ELSE LET total == Len(show.episodes.items)
             watched == CountWatched(show.episodes.items, total)
             percentage == MathRound(DoubleTimes(DoubleDivide(watched, total), 100))
         IN  [watched |-> watched, total |-> total, percentage |-> percentage]

\* ------------------------------------------------------------------------
\* State
\* ------------------------------------------------------------------------

VARIABLES
    heap,           \* the array objects: arg (the caller's shows argument),
                    \* fetched (what getShows() returned), copy (the clone)
    localShows,     \* the shows stored under STORAGE_KEYS.SHOWS
    minutesGoal,    \* the minutesGoal argument
    pc,             \* "call", "loop", "returned" or "thrown"
    allShows,       \* the object allShows refers to
    showsCopy,      \* the object showsCopy refers to
    queue,          \* the local queue
    totalRuntime,   \* the local totalRuntime
    brokeOut,       \* the loop was left by its break
    picked,         \* for each queue entry, the {show, episode} it was
                    \* projected from, as positions in showsCopy (history)
    input,          \* the collection as it was before the call (history)
    argument,       \* the show handed to a helper called on its own
    outcome,        \* what that call returned, and what it was handed
    localHistory,   \* the entries stored under STORAGE_KEYS.HISTORY
    localSettings,  \* the object stored under STORAGE_KEYS.SETTINGS, if any
    currentQueue,   \* the queue object currentQueue refers to, or null
    currentQueueIndex,
    pickedButton,   \* the data of the visible Mark as Watched button, if any
    view,           \* the Couch Potato panel on display
    second,         \* the locals and the private objects of a second call of
                    \* generateCouchPotatoQueue running next to the first
    now             \* the reading of the clock (new Date()), in ticks

\* The variables of a call of generateCouchPotatoQueue.
coreVars ==
    <<heap, localShows, minutesGoal, pc, allShows, showsCopy, queue,
      totalRuntime, brokeOut, picked, input>>

\* The variables of a helper called on its own.
helperVars == <<argument, outcome>>

\* The stored data next to the shows and the state of the page.
appVars ==
    <<localHistory, localSettings, currentQueue, currentQueueIndex,
      pickedButton, view>>

vars == <<coreVars, helperVars, appVars, second, now>>

\* The locals of a call of generateCouchPotatoQueue at the given point, none
\* of its objects made yet.
Frame(at, goal) ==
    [pc |-> at, minutesGoal |-> goal, fetched |-> Undefined,
     copy |-> Undefined, allShows |-> "none", showsCopy |-> "none",
     queue |-> <<>>, totalRuntime |-> 0, brokeOut |-> FALSE, picked |-> <<>>]

\* No second call is running.
NoSecond == Frame("none", 0)

\* No helper is being called on its own.
NoHelperCall ==
    /\ argument = Undefined
    /\ outcome = [fn |-> "none"]

\* No Mark as Watched button is on display.
NoButton == [type |-> "undefined"]

\* The page as it is loaded over an empty storage.
NoPage ==
    /\ localHistory = <<>>
    /\ localSettings = Undefined
    /\ currentQueue = Undefined
    /\ currentQueueIndex = 0
    /\ pickedButton = NoButton
    /\ view = "setup"

\* getShows(): a fresh array parsed from storage, [] when nothing is stored.
getShows == Arr(localShows)

\* Faulty copy: no clone is made and showsCopy is the object itself.
AliasClone(ref) == ref

\* JSON.parse(JSON.stringify(x)): the object holding the result. The clone is
\* a new object whose numbers, booleans and nested arrays equal those of x.
JsonClone(ref) == "copy"

\* The input collections: shows holding up to MaxTotalEpisodes episodes
\* together, a show without episodes possibly lacking the field. Ids are
\* compared for equality and copied, nothing else: the first show and the
\* first episode of a collection are given id 1, and every other collection
\* is one of these with its ids renamed.
InitShows(items) ==
    \E k \in ShowCounts :
    \E counts \in [1..k -> 0..MaxTotalEpisodes] :
        /\ SumTo(counts, k) <= MaxTotalEpisodes
        /\ \E missing \in [1..k -> BOOLEAN] :
            /\ \A i \in 1..k : missing[i] => counts[i] = 0
            /\ \E ids \in [1..k -> ShowIds] :
               \E flat \in [1..SumTo(counts, k) -> Episodes] :
                    /\ k >= 1 => ids[1] = 1
                    /\ SumTo(counts, k) >= 1 => flat[1].id = 1
                    /\ items = BuildShows(k, ids, counts, missing, flat)

\* A caller is about to run generateCouchPotatoQueue(minutesGoal, shows).
Init ==
    /\ InitShows(input)
    /\ heap = [arg |-> Arr(input), fetched |-> Undefined, copy |-> Undefined]
    /\ localShows = <<>>
    /\ minutesGoal \in Goals
    /\ pc = "call"
    /\ allShows = "none"
    /\ showsCopy = "none"
    /\ queue = <<>>
    /\ totalRuntime = 0
    /\ brokeOut = FALSE
    /\ picked = <<>>
    /\ NoHelperCall
    /\ NoPage
    /\ second = NoSecond
    /\ now = 0

\* generateCouchPotatoQueue, up to the loop: allShows, the deep copy, the
\* empty queue and the zero total.
Call ==
    /\ pc = "call"
    /\ LET src == IF Truthy(heap.arg) THEN "arg" ELSE "fetched"
           read == IF src = "fetched"
                   THEN [heap EXCEPT !.fetched = getShows]
                   ELSE heap
           cp == JsonClone(src)
       IN  /\ allShows' = src
           /\ showsCopy' = cp
           /\ heap' = [read EXCEPT ![cp] = read[src]]
    /\ queue' = <<>>
    /\ totalRuntime' = 0
    /\ pc' = "loop"
    /\ UNCHANGED <<localShows, minutesGoal, brokeOut, picked, input>>
    /\ UNCHANGED <<helperVars, appVars, second, now>>

\* One pass through the loop body with the given random index: break when
\* nothing can be picked, else push the entry, add its runtime and mark the
\* episode in the copy.
LoopBody(randomIndex) ==
    /\ pc = "loop"
    /\ LoopCondition(totalRuntime, minutesGoal)
    /\ LET result == pickRandomEpisode(heap[showsCopy], randomIndex)
           items == heap[showsCopy].items
       IN  IF result = NoResult
           THEN /\ pc' = "returned"
                /\ brokeOut' = TRUE
                /\ UNCHANGED <<heap, queue, totalRuntime, picked>>
           ELSE LET show == items[result.show]
                    episode == show.episodes.items[result.episode]
                    showInCopy == ShowInCopy(items, result.show)
                IN  /\ queue' = Append(queue, QueueEntry(show, episode))
                    /\ totalRuntime' = AddRuntime(totalRuntime, episode)
                    /\ picked' = Append(picked, result)
                    /\ brokeOut' = brokeOut
                    /\ IF showInCopy = NoRef
                       THEN pc' = "loop" /\ heap' = heap
                       ELSE IF ~Truthy(items[showInCopy].episodes)
                       THEN pc' = "thrown" /\ heap' = heap
                       ELSE LET epInCopy ==
                                    EpInCopy(items, showInCopy,
                                             result.show, result.episode)
                            IN  /\ pc' = "loop"
                                /\ heap' =
                                    IF epInCopy = NoRef THEN heap
                                    ELSE [heap EXCEPT ![showsCopy] =
                                            Arr(SetWatched(items, showInCopy,
                                                           epInCopy))]
    /\ UNCHANGED <<localShows, minutesGoal, allShows, showsCopy, input>>
    /\ UNCHANGED <<helperVars, appVars, second, now>>

\* The loop condition fails: the queue, the total and the target are returned.
LoopExit ==
    /\ pc = "loop"
    /\ ~LoopCondition(totalRuntime, minutesGoal)
    /\ pc' = "returned"
    /\ UNCHANGED <<heap, localShows, minutesGoal, allShows, showsCopy, queue,
                   totalRuntime, brokeOut, picked, input>>
    /\ UNCHANGED <<helperVars, appVars, second, now>>

\* A pass through the loop body, for each value the random index can take.
Iterate ==
    /\ pc = "loop"
    /\ \E randomIndex \in RandomIndices(heap[showsCopy]) : LoopBody(randomIndex)

Next == Call \/ Iterate \/ LoopExit

Spec == Init /\ [][Next]_vars

\* ------------------------------------------------------------------------
\* Two calls of generateCouchPotatoQueue with their steps interleaved
\* ------------------------------------------------------------------------

\* The targets of the two calls.
TwoGoals == {60, 90}

\* The object a name of the second call refers to: the caller's argument is
\* the one object both calls are handed, the rest is the second call's own.
SecondObject(ref) == IF ref = "arg" THEN heap.arg ELSE second[ref]

\* Two callers are about to run generateCouchPotatoQueue over the stored
\* collection: both without an argument, each reading the storage by
\* getShows(), or both with the same array as argument.
TwoInit ==
    /\ InitShows(input)
    /\ localShows = input
    /\ \E handed \in BOOLEAN :
            heap = [arg |-> IF handed THEN Arr(input) ELSE Undefined,
                    fetched |-> Undefined, copy |-> Undefined]
    /\ minutesGoal \in TwoGoals
    /\ pc = "call"
    /\ allShows = "none"
    /\ showsCopy = "none"
    /\ queue = <<>>
    /\ totalRuntime = 0
    /\ brokeOut = FALSE
    /\ picked = <<>>
    /\ NoHelperCall
    /\ NoPage
    /\ \E goal \in TwoGoals : second = Frame("call", goal)
    /\ now = 0

\* The second call, up to the loop.
SecondCall ==
    /\ second.pc = "call"
    /\ LET src == IF Truthy(heap.arg) THEN "arg" ELSE "fetched"
           read == IF src = "fetched"
                   THEN [second EXCEPT !.fetched = getShows]
                   ELSE second
           cp == JsonClone(src)
           cloned == IF cp = "copy"
                     THEN [read EXCEPT !.copy =
                                IF src = "arg" THEN heap.arg ELSE read[src]]
                     ELSE read
       IN  second' = [cloned EXCEPT !.allShows = src, !.showsCopy = cp,
                                    !.queue = <<>>, !.totalRuntime = 0,
                                    !.pc = "loop"]
    /\ UNCHANGED <<coreVars, helperVars, appVars, now>>

\* One pass of the second call through the loop body.
SecondLoopBody(randomIndex) ==
    /\ second.pc = "loop"
    /\ LoopCondition(second.totalRuntime, second.minutesGoal)
    /\ LET object == SecondObject(second.showsCopy)
           result == pickRandomEpisode(object, randomIndex)
           items == object.items
       IN  IF result = NoResult
           THEN /\ second' = [second EXCEPT !.pc = "returned", !.brokeOut = TRUE]
                /\ heap' = heap
           ELSE LET show == items[result.show]
                    episode == show.episodes.items[result.episode]
                    showInCopy == ShowInCopy(items, result.show)
                    pushed == [second EXCEPT
                                !.queue = Append(@, QueueEntry(show, episode)),
                                !.totalRuntime = AddRuntime(@, episode),
                                !.picked = Append(@, result)]
                IN  IF showInCopy = NoRef
                    THEN second' = pushed /\ heap' = heap
                    ELSE IF ~Truthy(items[showInCopy].episodes)
                    THEN second' = [pushed EXCEPT !.pc = "thrown"] /\ heap' = heap
                    ELSE LET epInCopy ==
                                 EpInCopy(items, showInCopy,
                                          result.show, result.episode)
                             marked == Arr(SetWatched(items, showInCopy, epInCopy))
                         IN  IF epInCopy = NoRef
                             THEN second' = pushed /\ heap' = heap
                             ELSE IF second.showsCopy = "arg"
                             THEN /\ second' = pushed
                                  /\ heap' = [heap EXCEPT !.arg = marked]
                             ELSE /\ second' =
                                        [pushed EXCEPT ![second.showsCopy] = marked]
                                  /\ heap' = heap
    /\ UNCHANGED <<localShows, minutesGoal, pc, allShows, showsCopy, queue,
                   totalRuntime, brokeOut, picked, input>>
    /\ UNCHANGED <<helperVars, appVars, now>>

\* The loop condition of the second call fails.
SecondLoopExit ==
    /\ second.pc = "loop"
    /\ ~LoopCondition(second.totalRuntime, second.minutesGoal)
    /\ second' = [second EXCEPT !.pc = "returned"]
    /\ UNCHANGED <<coreVars, helperVars, appVars, now>>

SecondIterate ==
    /\ second.pc = "loop"
    /\ \E randomIndex \in RandomIndices(SecondObject(second.showsCopy)) :
            SecondLoopBody(randomIndex)

TwoNext ==
    \/ Call
    \/ Iterate
    \/ LoopExit
    \/ SecondCall
    \/ SecondIterate
    \/ SecondLoopExit

SpecTwo == TwoInit /\ [][TwoNext]_vars

\* ------------------------------------------------------------------------
\* The helpers called on their own
\* ------------------------------------------------------------------------

\* Lengths of the longer shows handed to the helpers.
SeasonLengths == {3, 4, 8, 40}

\* A show of one season of n episodes of which the first w are watched.
SeasonOf(n, w) ==
    ShowObj(1, Arr([j \in 1..n |->
                      [id |-> j, season |-> 1, episodeNumber |-> j,
                       runtime |-> 30, watched |-> j <= w]]))

\* The shows handed to a helper: null, a show without the episodes field,
\* every show of up to MaxTotalEpisodes episodes in any array order, and the
\* longer shows.
InitArgument(show) ==
    \/ show = Undefined
    \/ show = ShowObj(1, Undefined)
    \/ \E n \in 0..MaxTotalEpisodes :
       \E eps \in [1..n -> Episodes] : show = ShowObj(1, Arr(eps))
    \/ \E n \in SeasonLengths :
       \E w \in 0..n : show = SeasonOf(n, w)

\* No call of generateCouchPotatoQueue is under way.
NoBuild ==
    /\ heap = [arg |-> Undefined, fetched |-> Undefined, copy |-> Undefined]
    /\ localShows = <<>>
    /\ minutesGoal = 0
    /\ pc = "idle"
    /\ allShows = "none"
    /\ showsCopy = "none"
    /\ queue = <<>>
    /\ totalRuntime = 0
    /\ brokeOut = FALSE
    /\ picked = <<>>
    /\ input = <<>>

\* A caller is about to hand a show to one of the helpers.
HelperInit ==
    /\ NoBuild
    /\ InitArgument(argument)
    /\ outcome = [fn |-> "none"]
    /\ NoPage
    /\ second = NoSecond
    /\ now = 0

\* getNextUnwatchedEpisode(argument)
CallGetNextUnwatchedEpisode ==
    /\ outcome.fn = "none"
    /\ outcome' = [fn |-> "getNextUnwatchedEpisode", given |-> argument,
                   result |-> getNextUnwatchedEpisode(argument)]
    /\ argument' = ShowAfterGetNext(argument)
    /\ UNCHANGED <<coreVars, appVars, second, now>>

\* calculateShowProgress(argument): filter builds a new array and nothing of
\* the show is written.
CallCalculateShowProgress ==
    /\ outcome.fn = "none"
    /\ outcome' = [fn |-> "calculateShowProgress", given |-> argument,
                   result |-> calculateShowProgress(argument)]
    /\ argument' = argument
    /\ UNCHANGED <<coreVars, appVars, second, now>>

HelperNext == CallGetNextUnwatchedEpisode \/ CallCalculateShowProgress

SpecHelpers == HelperInit /\ [][HelperNext]_vars

\* ------------------------------------------------------------------------
\* Data layer
\* ------------------------------------------------------------------------

\* At most this many entries are kept in the stored history: a click that
\* would add one more is left out of the model.
MaxHistory == 2

\* hasUnwatchedEpisodes(shows)
hasUnwatchedEpisodes(shows) ==
    IF ~Truthy(shows) THEN FALSE
    ELSE IF Len(shows.items) = 0 THEN FALSE
    ELSE \E p \in 1..Len(shows.items) : SomeUnwatched(shows.items[p])

\* DEFAULT_SETTINGS
DEFAULT_SETTINGS ==
    [type |-> "object", couchPotatoDuration |-> 360,
     streamingServices |-> <<>>, customServices |-> <<>>]

\* getSettings(): the stored object, or a copy of the defaults.
getSettings ==
    IF Truthy(localSettings) THEN localSettings ELSE DEFAULT_SETTINGS

\* { ...a, ...b }: the fields of b, and those of a that b does not have.
Spread(a, b) ==
    [f \in (DOMAIN a) \cup (DOMAIN b) |-> IF f \in DOMAIN b THEN b[f] ELSE a[f]]

\* updateSettings(updates): the object stored afterwards.
updateSettings(updates) == Spread(getSettings, updates)

\* The entry addToHistory puts in front of the history (its own id and the
\* time of watching are not modelled).
HistoryEntry(show, episode) ==
    [showId |-> show.id, episodeId |-> episode.id, season |-> episode.season,
     episodeNumber |-> episode.episodeNumber, runtime |-> episode.runtime]

\* setEpisodeWatched(showId, episodeId, watched): the show and the episode
\* found by id in the stored collection, NoRef for one that is not found.
StoredTarget(showId, episodeId) ==
    LET show == FindById(localShows, showId, 1)
    IN  IF show = NoRef THEN [show |-> NoRef, episode |-> NoRef]
        ELSE [show |-> show,
              episode |-> FindById(localShows[show].episodes.items,
                                   episodeId, 1)]

\* setEpisodeWatched: the shows stored afterwards.
ShowsAfterSetWatched(showId, episodeId, watched) ==
    LET t == StoredTarget(showId, episodeId)
    IN  IF t.episode = NoRef THEN localShows
        ELSE [localShows EXCEPT
                ![t.show].episodes.items[t.episode].watched = watched]

\* setEpisodeWatched: the history stored afterwards, with the new entry in
\* front when an episode was found and marked watched.
HistoryAfterSetWatched(showId, episodeId, watched) ==
    LET t == StoredTarget(showId, episodeId)
    IN  IF t.episode = NoRef \/ ~watched THEN localHistory
        ELSE <<HistoryEntry(localShows[t.show],
                            ShowsAfterSetWatched(showId, episodeId, watched)
                                [t.show].episodes.items[t.episode])>>
                \o localHistory

\* ------------------------------------------------------------------------
\* The page: random picker and Couch Potato mode
\* ------------------------------------------------------------------------

\* The episodes of the stored collections of the page: S01E01 of 30 minutes
\* under id 1 and S01E02 of 45 minutes under id 2, watched or not.
StoredEpisodes ==
    {e \in Episodes : e.season = 1 /\ e.episodeNumber = e.id}

\* The stored collections the page is loaded over: shows that all have an
\* episodes array (as addShow writes them), ids shared or not.
InitStored(items) ==
    \E k \in ShowCounts :
    \E counts \in [1..k -> 0..MaxTotalEpisodes] :
        /\ SumTo(counts, k) <= MaxTotalEpisodes
        /\ \E ids \in [1..k -> ShowIds] :
           \E flat \in [1..SumTo(counts, k) -> StoredEpisodes] :
                /\ k >= 1 => ids[1] = 1
                /\ items = BuildShows(k, ids, counts,
                                      [i \in 1..k |-> FALSE], flat)

\* The settings the page is loaded with: the user has chosen one hour.
InitSettings(settings) ==
    settings = [DEFAULT_SETTINGS EXCEPT !.couchPotatoDuration = 60]

\* The page has been loaded (DOMContentLoaded): nothing picked, no queue.
PageLoaded ==
    /\ InitStored(localShows)
    /\ heap = [arg |-> Undefined, fetched |-> Undefined, copy |-> Undefined]
    /\ minutesGoal = 0
    /\ pc = "idle"
    /\ allShows = "none"
    /\ showsCopy = "none"
    /\ queue = <<>>
    /\ totalRuntime = 0
    /\ brokeOut = FALSE
    /\ picked = <<>>
    /\ input = <<>>
    /\ NoHelperCall
    /\ localHistory = <<>>
    /\ currentQueue = Undefined
    /\ currentQueueIndex = 0
    /\ pickedButton = NoButton
    /\ view = "setup"
    /\ second = NoSecond
    /\ now = 0

\* The page loaded by a user who has chosen one hour before.
AppInit == PageLoaded /\ InitSettings(localSettings)

\* The Mark as Watched button handleRandomize renders for a result; the
\* picked-episode container is hidden when there is none.
ButtonFor(shows, result) ==
    IF result = NoResult THEN NoButton
    ELSE [type |-> "button",
          showId |-> shows[result.show].id,
          episodeId |-> shows[result.show].episodes.items[result.episode].id]

\* handleRandomize() with the given random index.
HandleRandomize(randomIndex) ==
    /\ pc = "idle"
    /\ pickedButton' =
            ButtonFor(localShows, pickRandomEpisode(getShows, randomIndex))
    /\ UNCHANGED <<second, now, coreVars, helperVars, localHistory, localSettings,
                   currentQueue, currentQueueIndex, view>>

\* A click on Randomize.
Randomize ==
    \E randomIndex \in RandomIndices(getShows) : HandleRandomize(randomIndex)

\* A click on the Mark as Watched button of the picked episode: the episode
\* is marked in storage and handleRandomize runs again.
MarkPickedWatched ==
    /\ pc = "idle"
    /\ Truthy(pickedButton)
    /\ Len(localHistory) < MaxHistory
    /\ localShows' = ShowsAfterSetWatched(pickedButton.showId,
                                          pickedButton.episodeId, TRUE)
    /\ localHistory' = HistoryAfterSetWatched(pickedButton.showId,
                                              pickedButton.episodeId, TRUE)
    /\ \E randomIndex \in RandomIndices(Arr(localShows')) :
            pickedButton' =
                ButtonFor(localShows',
                          pickRandomEpisode(Arr(localShows'), randomIndex))
    /\ UNCHANGED <<heap, minutesGoal, pc, allShows, showsCopy, queue,
                   totalRuntime, brokeOut, picked, input, second, now, helperVars,
                   localSettings, currentQueue, currentQueueIndex, view>>

\* handleBuildQueue(), up to the call of generateCouchPotatoQueue: nothing
\* happens (but an alert) when no stored episode is unwatched; else
\* generateCouchPotatoQueue(settings.couchPotatoDuration) is entered, without
\* a shows argument.
HandleBuildQueue ==
    /\ pc = "idle"
    /\ IF ~hasUnwatchedEpisodes(getShows)
       THEN UNCHANGED <<minutesGoal, pc, input>>
       ELSE /\ minutesGoal' = getSettings.couchPotatoDuration
            /\ pc' = "call"
            /\ input' = localShows
    /\ UNCHANGED <<heap, localShows, allShows, showsCopy, queue, totalRuntime,
                   brokeOut, picked, helperVars, appVars, second, now>>

\* handleBuildQueue(), from the return of generateCouchPotatoQueue: the queue
\* object is installed, the index reset and the queue panel shown. The
\* locals of the call are gone.
InstallQueue ==
    /\ pc = "returned"
    /\ currentQueue' = [type |-> "object", episodes |-> queue,
                        totalRuntime |-> totalRuntime,
                        targetRuntime |-> minutesGoal]
    /\ currentQueueIndex' = 0
    /\ view' = "queue"
    /\ heap' = [arg |-> Undefined, fetched |-> Undefined, copy |-> Undefined]
    /\ minutesGoal' = 0
    /\ pc' = "idle"
    /\ allShows' = "none"
    /\ showsCopy' = "none"
    /\ queue' = <<>>
    /\ totalRuntime' = 0
    /\ brokeOut' = FALSE
    /\ picked' = <<>>
    /\ input' = <<>>
    /\ UNCHANGED <<second, now, localShows, helperVars, localHistory, localSettings,
                   pickedButton>>

\* Faulty rendering: the card with its two buttons is shown even when the
\* index is past the last entry.
CardAlways(q, index) == "nowWatching"

\* renderNowWatching(): the card of the current entry with its two buttons,
\* or Queue Complete when the index is past the last entry.
NowWatching(q, index) ==
    IF ~Truthy(q) THEN "complete"
    ELSE IF index >= Len(q.episodes) THEN "complete"
    ELSE "nowWatching"

\* handleStartWatching()
HandleStartWatching ==
    /\ pc = "idle"
    /\ Truthy(currentQueue)
    /\ Len(currentQueue.episodes) # 0
    /\ view' = NowWatching(currentQueue, currentQueueIndex)
    /\ UNCHANGED <<second, now, coreVars, helperVars, localHistory, localSettings,
                   currentQueue, currentQueueIndex, pickedButton>>

\* Faulty marking: the entry is taken out of the queue once watched.
DropQueueEntry(q, index) ==
    [q EXCEPT !.episodes =
        SubSeq(q.episodes, 1, index) \o
        SubSeq(q.episodes, index + 2, Len(q.episodes))]

\* Faulty marking: the flag of the queue entry is not set.
LeaveQueueEntry(q, index) == q

\* episode.watched = true on currentQueue.episodes[index] (0-based index).
MarkQueueEntry(q, index) ==
    [q EXCEPT !.episodes[index + 1].watched = TRUE]

\* The guard of markCurrentQueueEpisodeWatched: no queue, or the index is
\* past its last entry.
NothingCurrent ==
    IF ~Truthy(currentQueue) THEN TRUE
    ELSE currentQueueIndex >= Len(currentQueue.episodes)

\* markCurrentQueueEpisodeWatched(): returns at once when there is no
\* current entry; else marks the episode in storage and in the queue, moves
\* the index on and renders the card again.
markCurrentQueueEpisodeWatched ==
    /\ pc = "idle"
    /\ IF NothingCurrent
       THEN UNCHANGED <<localShows, localHistory, currentQueue,
                        currentQueueIndex, view>>
       ELSE /\ Len(localHistory) < MaxHistory
            /\ LET episode == currentQueue.episodes[currentQueueIndex + 1]
               IN  /\ localShows' =
                        ShowsAfterSetWatched(episode.showId, episode.episodeId,
                                             TRUE)
                   /\ localHistory' =
                        HistoryAfterSetWatched(episode.showId,
                                               episode.episodeId, TRUE)
            /\ currentQueue' = MarkQueueEntry(currentQueue, currentQueueIndex)
            /\ currentQueueIndex' = currentQueueIndex + 1
            /\ view' = NowWatching(currentQueue', currentQueueIndex')
    /\ UNCHANGED <<heap, minutesGoal, pc, allShows, showsCopy, queue,
                   totalRuntime, brokeOut, picked, input, second, now, helperVars,
                   localSettings, pickedButton>>

\* A click on Mark Watched & Next, a button of the card.
MarkCurrentQueueEpisodeWatched ==
    /\ view = "nowWatching"
    /\ markCurrentQueueEpisodeWatched

\* Faulty skip: the skipped episode is marked watched in storage.
SkipMarking ==
    /\ pc = "idle"
    /\ view = "nowWatching"
    /\ LET episode == currentQueue.episodes[currentQueueIndex + 1]
       IN  /\ localShows' =
                ShowsAfterSetWatched(episode.showId, episode.episodeId, TRUE)
           /\ localHistory' = localHistory
    /\ currentQueueIndex' = currentQueueIndex + 1
    /\ view' = NowWatching(currentQueue, currentQueueIndex')
    /\ UNCHANGED <<heap, minutesGoal, pc, allShows, showsCopy, queue,
                   totalRuntime, brokeOut, picked, input, second, now, helperVars,
                   localSettings, currentQueue, pickedButton>>

\* A click on Skip: the index moves on and the card is rendered again.
SkipEpisode ==
    /\ pc = "idle"
    /\ view = "nowWatching"
    /\ currentQueueIndex' = currentQueueIndex + 1
    /\ view' = NowWatching(currentQueue, currentQueueIndex')
    /\ UNCHANGED <<second, now, coreVars, helperVars, localHistory, localSettings,
                   currentQueue, pickedButton>>

AppNext ==
    \/ Randomize
    \/ MarkPickedWatched
    \/ HandleBuildQueue
    \/ Call
    \/ Iterate
    \/ LoopExit
    \/ InstallQueue
    \/ HandleStartWatching
    \/ MarkCurrentQueueEpisodeWatched
    \/ SkipEpisode

SpecApp == AppInit /\ [][AppNext]_vars

\* markCurrentQueueEpisodeWatched() called while the card is not on display
\* (the function is a global of the page).
MarkWithoutCard ==
    /\ view # "nowWatching"
    /\ markCurrentQueueEpisodeWatched

QueueNext == AppNext \/ MarkWithoutCard

\* The page with markCurrentQueueEpisodeWatched open to any caller.
SpecQueue == AppInit /\ [][QueueNext]_vars

\* ------------------------------------------------------------------------
\* The page: settings and import
\* ------------------------------------------------------------------------

\* The data-minutes of the duration buttons of the page.
DurationButtons == {60, 360}

\* What parseInt makes of the custom duration field: an empty or
\* non-numeric text gives NaN, which is falsy like 0.
CustomValues == {0, 20, 45}

\* The built-in service and the custom service the toggles are about.
ServiceIds == {"netflix"}
CustomServiceIds == {"custom_1"}

\* The backup files imported here hold settings only: none (a file without
\* any recognised field), or a settings object with its three fields, whose
\* duration nothing has validated.
ImportedDurations == {-30, 0, 90}

ImportFiles ==
    {[shows |-> Undefined, history |-> Undefined, settings |-> Undefined]}
    \cup
    {[shows |-> Undefined, history |-> Undefined,
      settings |-> [DEFAULT_SETTINGS EXCEPT !.couchPotatoDuration = d]] :
        d \in ImportedDurations}

\* A write of the settings object; nothing else of the state changes.
StoreSettings(settings) ==
    /\ pc = "idle"
    /\ localSettings' = settings
    /\ UNCHANGED <<second, now, coreVars, helperVars, localHistory, currentQueue,
                   currentQueueIndex, pickedButton, view>>

\* A click on a duration button.
DurationButtonClick ==
    \E minutes \in DurationButtons :
        StoreSettings(updateSettings([couchPotatoDuration |-> minutes]))

\* A change of the custom duration field: stored when it is a number of 30
\* or more, ignored otherwise.
CustomDurationChange ==
    \E value \in CustomValues :
        /\ value # 0 /\ value >= 30
        /\ StoreSettings(updateSettings([couchPotatoDuration |-> value]))

\* The elements of a sequence that are not x, in order.
RECURSIVE Without(_, _)
Without(seq, x) ==
    IF seq = <<>> THEN <<>>
    ELSE (IF Head(seq) = x THEN <<>> ELSE <<Head(seq)>>) \o Without(Tail(seq), x)

Includes(seq, x) == \E i \in 1..Len(seq) : seq[i] = x

\* handleServiceToggle(serviceId, isChecked)
HandleServiceToggle ==
    \E serviceId \in ServiceIds, isChecked \in BOOLEAN :
        LET services == getSettings.streamingServices
            toggled == IF isChecked
                       THEN (IF Includes(services, serviceId) THEN services
                             ELSE Append(services, serviceId))
                       ELSE Without(services, serviceId)
        IN  StoreSettings(updateSettings([streamingServices |-> toggled]))

\* addCustomService(name, color), the new service getting an id not in use.
AddCustomService ==
    \E id \in CustomServiceIds :
        /\ ~Includes(getSettings.customServices, id)
        /\ StoreSettings(updateSettings(
                [customServices |-> Append(getSettings.customServices, id)]))

\* deleteCustomService(serviceId): two updates, the second of which starts
\* from the settings read before the first.
DeleteCustomService ==
    \E serviceId \in CustomServiceIds :
        LET settings == getSettings
            first == updateSettings(
                        [customServices |-> Without(settings.customServices,
                                                    serviceId)])
        IN  /\ Includes(settings.customServices, serviceId)
            /\ StoreSettings(
                    Spread(first,
                           [streamingServices |->
                                Without(settings.streamingServices, serviceId)]))

\* importAllData(data, merge) for a file of ImportFiles: no field is
\* recognised and nothing is written, or the settings are stored as they
\* are (replace) or spread over the existing ones (merge).
ImportAllData ==
    \E data \in ImportFiles, merge \in BOOLEAN :
        /\ Truthy(data.settings)
        /\ IF merge
           THEN StoreSettings(updateSettings(Spread(getSettings, data.settings)))
           ELSE StoreSettings(data.settings)

\* The page loaded by a user who has never stored a setting.
SettingsInit == PageLoaded /\ localSettings = Undefined

SettingsNext ==
    \/ DurationButtonClick
    \/ CustomDurationChange
    \/ HandleServiceToggle
    \/ AddCustomService
    \/ DeleteCustomService
    \/ ImportAllData
    \/ HandleBuildQueue
    \/ Call
    \/ Iterate
    \/ LoopExit
    \/ InstallQueue

SpecSettings == SettingsInit /\ [][SettingsNext]_vars

\* ------------------------------------------------------------------------
\* Data layer: history, backup and restore
\* ------------------------------------------------------------------------

\* The clock is read at 0 up to this many ticks.
MaxTime == 1

\* A string value.
Str(s) == [type |-> "string", value |-> s]

\* The show titles: two that differ in case only and one that differs.
Titles == {"Lost", "LOST", "Fargo"}

\* Faulty comparison: the case is kept.
KeepCase(s) == s

\* String.prototype.toLowerCase on a title.
toLowerCase(s) == IF s \in {"Lost", "LOST"} THEN "lost" ELSE "fargo"

\* A show as addShow stores it, as far as the data layer looks at it: id,
\* title and one episode; the title may be missing in a file.
TitledShow(id, title, watched) ==
    [type |-> "object", id |-> id, title |-> title,
     episodes |-> Arr(<<[id |-> 1, season |-> 1, episodeNumber |-> 1,
                         runtime |-> 30, watched |-> watched]>>)]

\* The ids generateId gives to history entries, and files carry.
HistoryIds == {1, 2}

\* The entry addToHistory builds from the episode, the id generateId gave
\* and the time read.
StampedEntry(entry, id, time) ==
    Spread([type |-> "object", id |-> id, watchedAt |-> time], entry)

\* addToHistory(show, episode): history.unshift(entry).
addToHistory(history, show, episode, id, time) ==
    <<StampedEntry(HistoryEntry(show, episode), id, time)>> \o history

\* getHistory(): a fresh array parsed from storage.
getHistory == Arr(localHistory)

\* Faulty export: the default settings are written, not the stored ones.
ExportDefaultSettings ==
    [type |-> "object", shows |-> getShows, history |-> getHistory,
     settings |-> DEFAULT_SETTINGS]

\* exportAllData(): version and exportedAt are read by nothing.
exportAllData ==
    [type |-> "object", shows |-> getShows, history |-> getHistory,
     settings |-> getSettings]

\* data.x && Array.isArray(data.x)
IsArray(v) == v.type = "array"

\* s.title.toLowerCase() can be evaluated: s is an object with a string title.
HasTitle(show) ==
    IF ~Truthy(show) THEN FALSE ELSE show.title.type = "string"

\* existingShows.map(s => s.title.toLowerCase())
RECURSIVE LowerTitles(_, _)
LowerTitles(items, n) ==
    IF n = 0 THEN <<>>
    ELSE Append(LowerTitles(items, n - 1), toLowerCase(items[n].title.value))

\* data.shows.filter(s => !existingTitles.includes(s.title.toLowerCase()))
RECURSIVE NewShows(_, _, _)
NewShows(existingTitles, items, n) ==
    IF n = 0 THEN <<>>
    ELSE NewShows(existingTitles, items, n - 1)
            \o (IF Includes(existingTitles, toLowerCase(items[n].title.value))
                THEN <<>> ELSE <<items[n]>>)

\* existingHistory.map(h => h.id)
RECURSIVE HistoryIdsOf(_, _)
HistoryIdsOf(items, n) ==
    IF n = 0 THEN <<>> ELSE Append(HistoryIdsOf(items, n - 1), items[n].id)

\* data.history.filter(h => !existingIds.includes(h.id))
RECURSIVE NewHistory(_, _, _)
NewHistory(existingIds, items, n) ==
    IF n = 0 THEN <<>>
    ELSE NewHistory(existingIds, items, n - 1)
            \o (IF Includes(existingIds, items[n].id) THEN <<>> ELSE <<items[n]>>)

\* The shows part of a merge throws a TypeError: a stored or an imported
\* show has no string title.
MergeShowsThrows(data) ==
    \/ \E i \in 1..Len(localShows) : ~HasTitle(localShows[i])
    \/ \E i \in 1..Len(data.shows.items) : ~HasTitle(data.shows.items[i])

\* The history part of a merge throws a TypeError: a stored or an imported
\* entry is null.
MergeHistoryThrows(data) ==
    \/ \E i \in 1..Len(localHistory) : ~Truthy(localHistory[i])
    \/ \E i \in 1..Len(data.history.items) : ~Truthy(data.history.items[i])

\* What importAllData returns and leaves in storage.
Imported(success, shows, history, settings) ==
    [success |-> success, shows |-> shows, history |-> history,
     settings |-> settings]

\* importAllData(data, merge): the three parts are written one after the
\* other, and an exception ends the function with what was written so far.
importAllData(data, merge) ==
    IF ~Truthy(data)
    THEN Imported(FALSE, localShows, localHistory, localSettings)
    ELSE IF ~Truthy(data.shows) /\ ~Truthy(data.history) /\ ~Truthy(data.settings)
    THEN Imported(FALSE, localShows, localHistory, localSettings)
    ELSE IF merge
    THEN LET showsThrow == IsArray(data.shows) /\ MergeShowsThrows(data)
             shows == IF IsArray(data.shows) /\ ~showsThrow
                      THEN localShows \o
                           NewShows(LowerTitles(localShows, Len(localShows)),
                                    data.shows.items, Len(data.shows.items))
                      ELSE localShows
             historyThrows == /\ ~showsThrow
                              /\ IsArray(data.history)
                              /\ MergeHistoryThrows(data)
             history == IF ~showsThrow /\ IsArray(data.history) /\ ~historyThrows
                        THEN NewHistory(HistoryIdsOf(localHistory,
                                                     Len(localHistory)),
                                        data.history.items,
                                        Len(data.history.items))
                             \o localHistory
                        ELSE localHistory
             settings == IF ~showsThrow /\ ~historyThrows /\ Truthy(data.settings)
                         THEN updateSettings(Spread(getSettings, data.settings))
                         ELSE localSettings
         IN  Imported(~showsThrow /\ ~historyThrows, shows, history, settings)
    ELSE Imported(TRUE,
                  IF IsArray(data.shows) THEN data.shows.items ELSE localShows,
                  IF IsArray(data.history) THEN data.history.items
                  ELSE localHistory,
                  IF Truthy(data.settings) THEN data.settings ELSE localSettings)

\* A value that is an object but no array.
NotAnArray == [type |-> "object"]

\* The shows of a backup file: shows with the id 2, a title of another case
\* than the stored one, another title, or no title.
FileShow(title) == TitledShow(2, title, FALSE)

FileShows ==
    {Undefined, NotAnArray, Arr(<<>>)}
    \cup {Arr(<<FileShow(t)>>) : t \in {Str("LOST"), Str("Fargo"), Undefined}}
    \cup {Arr(<<FileShow(Str("LOST")), FileShow(Str("Fargo"))>>),
          Arr(<<FileShow(Str("Fargo")), FileShow(Str("Fargo"))>>),
          Arr(<<FileShow(Str("Fargo")), FileShow(Undefined)>>)}

\* The history of a backup file: one entry of the stored kind, watched at
\* any time, or null in place of an entry.
FileEntry(id, time) ==
    StampedEntry(HistoryEntry(TitledShow(2, Str("Fargo"), TRUE),
                              TitledShow(2, Str("Fargo"), TRUE).episodes.items[1]),
                 id, time)

FileHistories ==
    {Undefined, Arr(<<>>), Arr(<<Undefined>>)}
    \cup {Arr(<<FileEntry(id, time)>>) : id \in HistoryIds, time \in 0..MaxTime}

FileSettings ==
    {Undefined, [DEFAULT_SETTINGS EXCEPT !.couchPotatoDuration = 90]}

\* The object JSON.parse gives for a backup file.
File(shows, history, settings) ==
    [type |-> "object", shows |-> shows, history |-> history,
     settings |-> settings]

\* The values handed to importAllData: null, an object with none of the
\* three fields, files with one of them, and files with all three whose
\* history is sound or holds null.
BackupFiles ==
    {Undefined}
    \cup {File(s, Undefined, Undefined) : s \in FileShows}
    \cup {File(Undefined, h, Undefined) : h \in FileHistories}
    \cup {File(Undefined, Undefined, t) : t \in FileSettings}
    \cup {File(Arr(<<FileShow(Str("Fargo"))>>), h,
                [DEFAULT_SETTINGS EXCEPT !.couchPotatoDuration = 90]) :
            h \in {Arr(<<Undefined>>), Arr(<<FileEntry(1, 0)>>)}}

\* What a step of the data layer leaves alone.
DataFrame ==
    UNCHANGED <<heap, minutesGoal, pc, allShows, showsCopy, queue,
                totalRuntime, brokeOut, picked, input, argument,
                currentQueue, currentQueueIndex, pickedButton, view, second>>

\* The clock moves on.
Tick ==
    /\ now < MaxTime
    /\ now' = now + 1
    /\ UNCHANGED <<localShows, localHistory, localSettings, outcome>>
    /\ DataFrame

\* setEpisodeWatched(showId, episodeId, watched), the history entry getting
\* an id no stored entry has and the time read from the clock. The ids are
\* few, which keeps the history short.
SetEpisodeWatched ==
    \E showId \in ShowIds, episodeId \in EpisodeIds, watched \in BOOLEAN :
        LET t == StoredTarget(showId, episodeId)
        IN  /\ localShows' = ShowsAfterSetWatched(showId, episodeId, watched)
            /\ IF t.episode = NoRef \/ ~watched
               THEN localHistory' = localHistory
               ELSE /\ \E id \in HistoryIds :
                        /\ \A i \in 1..Len(localHistory) :
                                Truthy(localHistory[i]) => localHistory[i].id # id
                        /\ localHistory' =
                                addToHistory(localHistory, localShows[t.show],
                                             localShows'[t.show].episodes
                                                .items[t.episode],
                                             id, now)
            /\ UNCHANGED <<localSettings, now, outcome>>
            /\ DataFrame

\* clearHistory()
ClearHistory ==
    /\ localHistory' = <<>>
    /\ UNCHANGED <<localShows, localSettings, now, outcome>>
    /\ DataFrame

\* importAllData(data, merge) on the stored state: what it leaves stored.
StoreImported(data, merge) ==
    LET r == importAllData(data, merge)
    IN  /\ localShows' = r.shows
        /\ localHistory' = r.history
        /\ localSettings' = r.settings

\* A backup file is imported, in either mode.
ImportFile ==
    \E data \in BackupFiles, merge \in BOOLEAN :
        /\ StoreImported(data, merge)
        /\ UNCHANGED <<now, outcome>>
        /\ DataFrame

\* The page loaded over an empty library or over one show, with no history
\* and no settings stored.
DataInit ==
    /\ heap = [arg |-> Undefined, fetched |-> Undefined, copy |-> Undefined]
    /\ minutesGoal = 0
    /\ pc = "idle"
    /\ allShows = "none"
    /\ showsCopy = "none"
    /\ queue = <<>>
    /\ totalRuntime = 0
    /\ brokeOut = FALSE
    /\ picked = <<>>
    /\ input = <<>>
    /\ localShows \in {<<>>, <<TitledShow(1, Str("Lost"), FALSE)>>}
    /\ NoHelperCall
    /\ NoPage
    /\ second = NoSecond
    /\ now = 0

DataNext ==
    \/ Tick
    \/ SetEpisodeWatched
    \/ ClearHistory
    \/ ImportFile

SpecData == DataInit /\ [][DataNext]_vars

\* ------------------------------------------------------------------------
\* importAllData called on its own
\* ------------------------------------------------------------------------

\* The stored shows a call of importAllData finds: none, the show added
\* first, what a replace import of a file has stored, or the show added
\* first with a show merged behind it.
StoredLibraries ==
    {<<>>, <<TitledShow(1, Str("Lost"), FALSE)>>,
     <<TitledShow(1, Str("Lost"), FALSE), FileShow(Str("Fargo"))>>}
    \cup {s.items : s \in {f \in FileShows : IsArray(f)}}

\* The stored histories it finds: none, what a replace import has stored,
\* or an entry added in front of an imported one.
StoredHistories ==
    {<<>>, <<FileEntry(2, 1), FileEntry(1, 0)>>}
    \cup {h.items : h \in {f \in FileHistories : IsArray(f)}}

\* The call importAllData(data, merge) is about to be made.
BackupInit ==
    /\ heap = [arg |-> Undefined, fetched |-> Undefined, copy |-> Undefined]
    /\ minutesGoal = 0
    /\ pc = "idle"
    /\ allShows = "none"
    /\ showsCopy = "none"
    /\ queue = <<>>
    /\ totalRuntime = 0
    /\ brokeOut = FALSE
    /\ picked = <<>>
    /\ input = <<>>
    /\ localShows \in StoredLibraries
    /\ argument \in [type : {"object"}, data : BackupFiles, merge : BOOLEAN]
    /\ outcome = [fn |-> "none"]
    /\ localHistory \in StoredHistories
    /\ localSettings \in FileSettings
    /\ currentQueue = Undefined
    /\ currentQueueIndex = 0
    /\ pickedButton = NoButton
    /\ view = "setup"
    /\ second = NoSecond
    /\ now = 0

\* What is stored, as the three getters return it.
Stored ==
    [shows |-> getShows, history |-> getHistory, settings |-> getSettings]

\* importAllData(argument.data, argument.merge)
CallImportAllData ==
    /\ outcome.fn = "none"
    /\ StoreImported(argument.data, argument.merge)
    /\ outcome' = [fn |-> "importAllData", given |-> Stored,
                   success |-> importAllData(argument.data,
                                             argument.merge).success]
    /\ UNCHANGED now
    /\ DataFrame

\* importAllData(exportAllData(), false)
CallExportImport ==
    /\ outcome.fn = "none"
    /\ StoreImported(exportAllData, FALSE)
    /\ outcome' = [fn |-> "exportImport", given |-> Stored,
                   success |-> importAllData(exportAllData, FALSE).success]
    /\ UNCHANGED now
    /\ DataFrame

BackupNext == CallImportAllData \/ CallExportImport

SpecBackup == BackupInit /\ [][BackupNext]_vars

\* ------------------------------------------------------------------------
\* Aggregates used to state the properties
\* ------------------------------------------------------------------------

RECURSIVE SumRuntimes(_)
SumRuntimes(entries) ==
    IF entries = <<>> THEN 0
    ELSE Head(entries).runtime + SumRuntimes(Tail(entries))

\* The {show, episode} positions of the unwatched episodes of a collection.
UnwatchedPositions(items) ==
    { p \in [show : 1..Len(items), episode : 1..MaxTotalEpisodes + 1] :
        /\ Truthy(items[p.show].episodes)
        /\ p.episode <= Len(items[p.show].episodes.items)
        /\ ~items[p.show].episodes.items[p.episode].watched }

EpisodeAt(items, p) == items[p.show].episodes.items[p.episode]

RECURSIVE SumOver(_, _)
SumOver(items, ps) ==
    IF ps = {} THEN 0
    ELSE LET p == CHOOSE q \in ps : TRUE
         IN  EpisodeAt(items, p).runtime + SumOver(items, ps \ {p})

\* The sum of the runtimes of the unwatched episodes of a collection.
TotalUnwatchedRuntime(items) == SumOver(items, UnwatchedPositions(items))

\* The array objects that hold a collection in the current state.
LiveCollections == {v \in {heap.arg, heap.fetched, heap.copy} : Truthy(v)}

\* a comes no later than b in watch order.
NoLater(a, b) ==
    \/ a.season < b.season
    \/ a.season = b.season /\ a.episodeNumber <= b.episodeNumber

\* ------------------------------------------------------------------------
\* Properties of generateCouchPotatoQueue
\* ------------------------------------------------------------------------

\* C1: generateCouchPotatoQueue leaves its shows argument unmodified: at every
\* point of the call the caller's collection deep-equals what it was before
\* the call; only the private copy has episodes flipped to watched.
C1_ArgumentUnmodified == heap.arg = Arr(input)

\* C1 witness: the call has returned after flipping an episode in the copy,
\* which therefore differs from the argument.
C1_Witness ==
    /\ pc = "returned"
    /\ queue # <<>>
    /\ heap.copy # heap.arg

\* C2: no two entries of the queue carry the same episodeId, whatever the
\* input collection (shared ids included), the target and the random choices.
C2_NoRepeatedEpisodeId ==
    \A i, j \in 1..Len(queue) : i # j => queue[i].episodeId # queue[j].episodeId

\* C3: when generateCouchPotatoQueue returns, the total has reached the
\* target or no unwatched episode remains in any show of the copy.
C3_TargetReachedOrExhausted ==
    pc = "returned" =>
        \/ totalRuntime >= minutesGoal
        \/ UnwatchedPositions(heap[showsCopy].items) = {}

\* C3 witness: a return with a positive target reached while an unwatched
\* episode is still left in the copy.
C3_Witness ==
    /\ pc = "returned"
    /\ queue # <<>>
    /\ totalRuntime >= minutesGoal
    /\ UnwatchedPositions(heap[showsCopy].items) # {}

\* C4: the number of loop iterations that append an entry is bounded by the
\* number of unwatched episodes of the input, each such iteration marking one
\* previously unwatched episode of the copy as watched.
C4_IterationsBounded ==
    Len(queue) <= Cardinality(UnwatchedPositions(input))

\* ------------------------------------------------------------------------
\* Properties of the pick functions
\* ------------------------------------------------------------------------

\* What getNextUnwatchedEpisode has to return for a show: an unwatched
\* episode no later in watch order than any other unwatched episode, at any
\* position of the array, and the null reference when there is none.
EarliestUnwatched(show) ==
    LET next == getNextUnwatchedEpisode(show)
        eps == show.episodes.items
    IN  IF ~Truthy(show.episodes) THEN next = NoRef
        ELSE IF \A j \in 1..Len(eps) : eps[j].watched THEN next = NoRef
        ELSE /\ next \in 1..Len(eps)
             /\ ~eps[next].watched
             /\ \A j \in 1..Len(eps) :
                    ~eps[j].watched => NoLater(eps[next], eps[j])

\* C5: getNextUnwatchedEpisode returns the unwatched episode that is smallest
\* by (season, episodeNumber) wherever it sits in the array, and null for a
\* missing show, a show without episodes and a show watched to the end.
C5_NextIsEarliestUnwatched ==
    /\ getNextUnwatchedEpisode(Undefined) = NoRef
    /\ getNextUnwatchedEpisode(ShowObj(1, Undefined)) = NoRef
    /\ getNextUnwatchedEpisode(ShowObj(1, Arr(<<>>))) = NoRef
    /\ \A v \in LiveCollections :
       \A s \in 1..Len(v.items) : EarliestUnwatched(v.items[s])

\* C5 witness: the queue starts with the second episode of a show's array
\* although the first one was unwatched too: it comes later in watch order.
C5_Witness ==
    /\ queue # <<>>
    /\ picked[1].episode = 2
    /\ ~input[picked[1].show].episodes.items[1].watched
    /\ ~NoLater(input[picked[1].show].episodes.items[1],
                input[picked[1].show].episodes.items[2])

\* The collection values the pick functions are examined on: the live
\* ones, null and the empty array.
PickArguments == LiveCollections \cup {Undefined, Arr(<<>>)}

\* C6: pickRandomShowWithUnwatchedEpisodes never returns a show without an
\* unwatched episode, whatever the random outcome; it returns null exactly
\* when no show of the collection has one (a null or empty collection
\* included) and a member of the collection otherwise.
C6_PickedShowHasUnwatched ==
    \A v \in PickArguments :
    \A randomIndex \in RandomIndices(v) :
        LET show == pickRandomShowWithUnwatchedEpisodes(v, randomIndex)
            none == \/ ~Truthy(v)
                    \/ \A p \in 1..Len(v.items) :
                        \/ ~Truthy(v.items[p].episodes)
                        \/ \A j \in 1..Len(v.items[p].episodes.items) :
                                v.items[p].episodes.items[j].watched
        IN  /\ (show = NoRef) <=> none
            /\ show # NoRef =>
                /\ show \in 1..Len(v.items)
                /\ \E j \in 1..Len(v.items[show].episodes.items) :
                        ~v.items[show].episodes.items[j].watched

\* C6 witness: the first entry was picked from the second show of a
\* collection whose first show had nothing left to watch.
C6_Witness ==
    /\ queue # <<>>
    /\ picked[1].show = 2
    /\ UnwatchedPositions(SubSeq(input, 1, 1)) = {}

\* C7: on a collection with an unwatched episode pickRandomEpisode returns
\* {show, episode} (not null) with show a member of the collection that has
\* an unwatched episode and episode an unwatched episode of that show.
C7_PickedEpisodeUnwatched ==
    \A v \in LiveCollections :
    \A randomIndex \in RandomIndices(v) :
        UnwatchedPositions(v.items) # {} =>
            LET result == pickRandomEpisode(v, randomIndex)
            IN  /\ result # NoResult
                /\ result \in UnwatchedPositions(v.items)

\* C7 witness: an entry was pushed for an episode that was unwatched in a
\* collection that also held a watched one.
C7_Witness ==
    /\ queue # <<>>
    /\ picked[1] \in UnwatchedPositions(input)
    /\ \E s \in 1..Len(input) :
            /\ Truthy(input[s].episodes)
            /\ \E j \in 1..Len(input[s].episodes.items) :
                    input[s].episodes.items[j].watched

\* ------------------------------------------------------------------------
\* Properties of the returned queue
\* ------------------------------------------------------------------------

\* C8: when the unwatched episodes of the input sum to less than the target,
\* the returned queue holds each of them exactly once, totalRuntime is that
\* sum, and the loop was left by its break, not by reaching the target.
C8_ExhaustsSupply ==
    (pc = "returned" /\ TotalUnwatchedRuntime(input) < minutesGoal) =>
        /\ brokeOut
        /\ totalRuntime = TotalUnwatchedRuntime(input)
        /\ Len(queue) = Cardinality(UnwatchedPositions(input))
        /\ \A p \in UnwatchedPositions(input) :
                \E i \in 1..Len(queue) : picked[i] = p

\* The example input: shows A and B with one unwatched episode each, one of
\* 30 and one of 45 minutes.
TwoShowExample ==
    /\ Len(input) = 2
    /\ input[1].id # input[2].id
    /\ \A s \in 1..2 :
            /\ Truthy(input[s].episodes)
            /\ Len(input[s].episodes.items) = 1
            /\ ~input[s].episodes.items[1].watched
    /\ {input[1].episodes.items[1].runtime,
        input[2].episodes.items[1].runtime} = {30, 45}

\* C9: the queue is never truncated to fit: totalRuntime is the sum of the
\* entries' runtimes, each entry carries the full runtime of the episode it
\* was projected from, and the total may exceed the target.
C9_NoTruncation ==
    /\ totalRuntime = SumRuntimes(queue)
    /\ \A i \in 1..Len(queue) :
            queue[i].runtime = EpisodeAt(input, picked[i]).runtime
    /\ (pc = "returned" /\ minutesGoal = 60 /\ TwoShowExample) =>
            /\ Len(queue) = 2
            /\ {queue[1].showId, queue[2].showId} = {input[1].id, input[2].id}
            /\ totalRuntime = 75

\* C9 witness: the example input returned for a target of 60 with the
\* 45-minute episode first, the 30-minute one second and a total of 75.
C9_Witness ==
    /\ pc = "returned"
    /\ minutesGoal = 60
    /\ TwoShowExample
    /\ Len(queue) = 2
    /\ queue[1].runtime = 45
    /\ queue[2].runtime = 30
    /\ totalRuntime = 75

C11_EmptyQueue ==
    /\ minutesGoal <= 0 =>
            /\ ~brokeOut
            /\ pc # "thrown"
            /\ queue = <<>>
            /\ totalRuntime = 0
    /\ (pc = "returned" /\ UnwatchedPositions(input) = {}) =>
            /\ queue = <<>>
            /\ totalRuntime = 0

\* C11 witness: a call with a target of zero or less has returned the empty
\* queue over a collection that had an unwatched episode to offer.
C11_Witness ==
    /\ pc = "returned"
    /\ minutesGoal <= 0
    /\ UnwatchedPositions(input) # {}
    /\ queue = <<>>
    /\ totalRuntime = 0

\* The positions in the queue of the entries projected from show s.
EntriesOf(s) == {i \in 1..Len(queue) : picked[i].show = s}

\* C12: the entries of a show appear in watch order and are the first
\* unwatched episodes of that show: no episode is entered twice, an entry
\* never comes later in watch order than an entry behind it, and no
\* unwatched episode left out comes strictly before an entry.
C12_InShowOrder ==
    \A s \in 1..Len(input) :
        /\ \A i, j \in EntriesOf(s) :
                i < j =>
                    /\ picked[i] # picked[j]
                    /\ NoLater(EpisodeAt(input, picked[i]),
                               EpisodeAt(input, picked[j]))
        /\ \A p \in UnwatchedPositions(input) :
                (p.show = s /\ \A i \in EntriesOf(s) : picked[i] # p) =>
                    \A i \in EntriesOf(s) :
                        NoLater(EpisodeAt(input, picked[i]),
                                EpisodeAt(input, p))

\* A collection value in which nothing can be picked: null, no show, or shows
\* that have no episodes array or only watched episodes.
NothingToPick(v) == ~Truthy(v) \/ UnwatchedPositions(v.items) = {}

\* C18: empty states are signalled by value, never by a thrown error: the
\* two pick functions return null for a null collection, an empty one and one
\* whose shows lack the episodes array or are watched to the end;
\* getNextUnwatchedEpisode returns null for a null show and a show without
\* episodes; and generateCouchPotatoQueue returns its queue object, empty or
\* short, for every collection made of such shows and others: it never
\* throws.
C18_NoThrow ==
    /\ \A v \in PickArguments :
       \A randomIndex \in RandomIndices(v) :
            NothingToPick(v) =>
                /\ pickRandomShowWithUnwatchedEpisodes(v, randomIndex) = NoRef
                /\ pickRandomEpisode(v, randomIndex) = NoResult
    /\ getNextUnwatchedEpisode(Undefined) = NoRef
    /\ getNextUnwatchedEpisode(ShowObj(1, Undefined)) = NoRef
    /\ getNextUnwatchedEpisode(ShowObj(1, Arr(<<>>))) = NoRef
    /\ pc # "thrown"

\* The positions of the shows of a collection that have an unwatched episode.
EligibleShows(items) == {p.show : p \in UnwatchedPositions(items)}

C15_ShowUnmodified ==
    outcome.fn = "getNextUnwatchedEpisode" => argument = outcome.given

\* C15 witness: the call has returned the second episode of an array whose
\* first episode comes later in watch order, so a sort of the array itself
\* would have moved both.
C15_Witness ==
    /\ outcome.fn = "getNextUnwatchedEpisode"
    /\ outcome.result = 2
    /\ ~NoLater(outcome.given.episodes.items[1],
                outcome.given.episodes.items[2])

\* watched * 100 / total rounded to the nearest integer, halves upwards.
RoundHalfUp(watched, total) == (200 * watched + total) \div (2 * total)

\* What calculateShowProgress has to return but for the percentage: zeros for
\* a missing show and a show without episodes, else the number of watched
\* episodes and the number of episodes, with a percentage from 0 to 100.
ProgressCounts(show, r) ==
    IF ~Truthy(show) THEN r = [watched |-> 0, total |-> 0, percentage |-> 0]
    ELSE IF ~Truthy(show.episodes) \/ Len(show.episodes.items) = 0
    THEN r = [watched |-> 0, total |-> 0, percentage |-> 0]
    ELSE /\ r.total = Len(show.episodes.items)
         /\ r.watched = Cardinality({j \in 1..Len(show.episodes.items) :
                                        show.episodes.items[j].watched})
         /\ 0 <= r.watched /\ r.watched <= r.total
         /\ 0 <= r.percentage /\ r.percentage <= 100

\* The 4-episode show of which 1 is watched gives {1, 4, 25}.
ProgressExample ==
    calculateShowProgress(SeasonOf(4, 1))
        = [watched |-> 1, total |-> 4, percentage |-> 25]

\* C17 as stated: the counts are right and the percentage is
\* watched * 100 / total rounded to the nearest integer with halves rounded
\* up.
C17_PercentageHalfUp ==
    /\ ProgressExample
    /\ outcome.fn = "calculateShowProgress" =>
            /\ ProgressCounts(outcome.given, outcome.result)
            /\ outcome.result.total > 0 =>
                    outcome.result.percentage
                        = RoundHalfUp(outcome.result.watched,
                                      outcome.result.total)

\* C17 as amended: the counts are right and the percentage is an integer
\* nearest to watched * 100 / total (no further than a half from it).
C17_PercentageNearest ==
    /\ ProgressExample
    /\ outcome.fn = "calculateShowProgress" =>
            /\ ProgressCounts(outcome.given, outcome.result)
            /\ outcome.result.total > 0 =>
                    LET d == outcome.result.percentage * outcome.result.total
                                - 100 * outcome.result.watched
                    IN  /\ 2 * d <= outcome.result.total
                        /\ -2 * d <= outcome.result.total

\* C17 witness: the progress of a show of 40 episodes with 23 watched has
\* been computed as 57 per cent; the exact value is 57.5.
C17_Witness ==
    /\ outcome.fn = "calculateShowProgress"
    /\ outcome.result = [watched |-> 23, total |-> 40, percentage |-> 57]

\* ------------------------------------------------------------------------
\* Properties of the page
\* ------------------------------------------------------------------------

\* C13: the stored shows and the stored history are written by the explicit
\* mark actions only: a step that changes either of them is a click on the
\* picked episode's Mark as Watched button or on Mark Watched & Next; a pick
\* (handleRandomize), a build (handleBuildQueue and every step of
\* generateCouchPotatoQueue), Start Watching and Skip leave both as they are.
C13_StorageWrittenByMarksOnly ==
    [][(localShows' # localShows \/ localHistory' # localHistory) =>
            (MarkPickedWatched \/ MarkCurrentQueueEpisodeWatched)]_vars

\* C13 witness: an episode has been picked, a queue built and started and
\* its first entry skipped, and still nothing has been written: the history
\* is empty and the picked episode is unwatched in storage.
C13_Witness ==
    /\ Truthy(pickedButton)
    /\ Truthy(currentQueue)
    /\ currentQueueIndex >= 1
    /\ localHistory = <<>>
    /\ LET t == StoredTarget(pickedButton.showId, pickedButton.episodeId)
       IN  /\ t.episode # NoRef
           /\ ~localShows[t.show].episodes.items[t.episode].watched

\* The shape of a queue object: its entries without their watched flags,
\* its total and its target.
Shape(q) ==
    [episodes |-> [i \in 1..Len(q.episodes) |->
                    [q.episodes[i] EXCEPT !.watched = FALSE]],
     totalRuntime |-> q.totalRuntime,
     targetRuntime |-> q.targetRuntime]

\* C19: a queue keeps its shape once built: every step but the installation
\* of a new queue (Start Watching, Mark Watched & Next, Skip and all others)
\* leaves the entries, their order, the total and the target as they are,
\* and a watched flag of an entry only ever goes from false to true.
C19_QueueShapeImmutable ==
    [][(Truthy(currentQueue) /\ pc # "returned") =>
            /\ Truthy(currentQueue')
            /\ Shape(currentQueue') = Shape(currentQueue)
            /\ \A i \in 1..Len(currentQueue.episodes) :
                    currentQueue.episodes[i].watched =>
                        currentQueue'.episodes[i].watched]_vars

\* C19 witness: of a queue of two entries the first has been marked watched
\* and the second skipped; the queue still holds both.
C19_Witness ==
    /\ Truthy(currentQueue)
    /\ Len(currentQueue.episodes) = 2
    /\ currentQueue.episodes[1].watched
    /\ ~currentQueue.episodes[2].watched
    /\ currentQueueIndex = 2
    /\ view = "complete"

\* C14: the target handleBuildQueue hands to generateCouchPotatoQueue is a
\* positive number of minutes, 360 as long as nothing has been stored, in
\* every state reached through duration buttons, the custom duration field,
\* service toggles, custom services and imports in either mode.
C14_DurationPositive ==
    /\ getSettings.couchPotatoDuration > 0
    /\ ~Truthy(localSettings) => getSettings.couchPotatoDuration = 360
    /\ pc \in {"call", "loop", "returned"} => minutesGoal > 0

\* No two entries of a queue carry the same episode id.
NoRepeatedId(q) ==
    \A i, j \in 1..Len(q) : i # j => q[i].episodeId # q[j].episodeId

\* The collection a call works on, once it has made it.
FirstView == IF showsCopy = "none" THEN Undefined ELSE heap[showsCopy]
SecondView ==
    IF second.showsCopy = "none" THEN Undefined
    ELSE SecondObject(second.showsCopy)

\* The locals of the first call.
FirstLocals == <<pc, queue, totalRuntime, brokeOut, picked>>

\* The working collection of a call changes only by a step of that call,
\* and the stored shows and a handed array stay what they were.
TwoCallsIsolated ==
    /\ [](localShows = input /\ (Truthy(heap.arg) => heap.arg = Arr(input)))
    /\ [][/\ second' = second => SecondView' = SecondView
          /\ FirstLocals' = FirstLocals => FirstView' = FirstView]_vars

\* A call that has ended has returned a queue without a repeated episode
\* id, having reached its target or used up the unwatched episodes.
FirstResultSound ==
    pc \in {"returned", "thrown"} =>
        /\ pc = "returned"
        /\ NoRepeatedId(queue)
        /\ \/ totalRuntime >= minutesGoal
           \/ UnwatchedPositions(FirstView.items) = {}
SecondResultSound ==
    second.pc \in {"returned", "thrown"} =>
        /\ second.pc = "returned"
        /\ NoRepeatedId(second.queue)
        /\ \/ second.totalRuntime >= second.minutesGoal
           \/ UnwatchedPositions(SecondView.items) = {}

C23_EpisodePresent ==
    \A ref \in {"arg", "copy"} :
        Truthy(heap[ref]) =>
            \A randomIndex \in RandomIndices(heap[ref]) :
                LET show == pickRandomShowWithUnwatchedEpisodes(heap[ref], randomIndex)
                IN  show # NoRef =>
                        getNextUnwatchedEpisode(heap[ref].items[show]) # NoRef

\* C23 witness: in the loop, after an episode was marked in the copy, a
\* show is still picked from a copy that also holds a show with nothing left.
C23_Witness ==
    /\ pc = "loop"
    /\ queue # <<>>
    /\ heap.copy # heap.arg
    /\ pickRandomShowWithUnwatchedEpisodes(heap.copy, 0) # NoRef
    /\ \E i \in 1..Len(heap.copy.items) : ~SomeUnwatched(heap.copy.items[i])

\* C28: in a non-empty queue returned by generateCouchPotatoQueue the total
\* before the last entry is below the target, so the overshoot is smaller
\* than the runtime of the last entry.
C28_OvershootBelowLastRuntime ==
    (pc = "returned" /\ queue # <<>>) =>
        /\ totalRuntime - queue[Len(queue)].runtime < minutesGoal
        /\ totalRuntime - minutesGoal < queue[Len(queue)].runtime

\* C28 witness: a returned queue whose total exceeds the target.
C28_Witness ==
    /\ pc = "returned"
    /\ queue # <<>>
    /\ totalRuntime > minutesGoal

\* The key getNextUnwatchedEpisode orders by.
KeyOf(ep) == <<ep.season, ep.episodeNumber>>
KeyBefore(a, b) == CompareEpisodes(a, b) < 0

\* C24: among the unwatched episodes of a show that share the smallest
\* (season, episodeNumber), getNextUnwatchedEpisode returns the one that
\* comes first in the episodes array; it returns no episode with a larger
\* key and does not fail.
C24_FirstOfTies ==
    (/\ outcome.fn = "getNextUnwatchedEpisode"
     /\ Truthy(outcome.given)
     /\ SomeUnwatched(outcome.given)) =>
        LET eps == outcome.given.episodes.items
            r == outcome.result
        IN  /\ r \in 1..Len(eps)
            /\ ~eps[r].watched
            /\ \A j \in 1..Len(eps) :
                    ~eps[j].watched =>
                        /\ ~KeyBefore(eps[j], eps[r])
                        /\ KeyOf(eps[j]) = KeyOf(eps[r]) => r <= j

\* C24 witness: two unwatched episodes with the same smallest key and
\* different ids, the first of which is returned.
C24_Witness ==
    /\ outcome.fn = "getNextUnwatchedEpisode"
    /\ Truthy(outcome.given)
    /\ Truthy(outcome.given.episodes)
    /\ LET eps == outcome.given.episodes.items
       IN  /\ Len(eps) = 2
           /\ ~eps[1].watched /\ ~eps[2].watched
           /\ KeyOf(eps[1]) = KeyOf(eps[2])
           /\ eps[1].id # eps[2].id
           /\ outcome.result = 1

\* The first stored show with the id of a queue entry and, in it, the first
\* episode with the episode id of the entry: the episode setEpisodeWatched
\* is handed.
IdentifiedBy(entry, i, j) ==
    /\ localShows[i].id = entry.showId
    /\ \A k \in 1..(i - 1) : localShows[k].id # entry.showId
    /\ localShows[i].episodes.items[j].id = entry.episodeId
    /\ \A l \in 1..(j - 1) : localShows[i].episodes.items[l].id # entry.episodeId

\* The watched flags of the stored episodes after a step are those before
\* it, but for the episode identified by the entry, which is watched.
StoredMarked(entry) ==
    /\ Len(localShows') = Len(localShows)
    /\ \A i \in 1..Len(localShows) :
        /\ Len(localShows'[i].episodes.items) = Len(localShows[i].episodes.items)
        /\ \A j \in 1..Len(localShows[i].episodes.items) :
                localShows'[i].episodes.items[j] =
                    IF IdentifiedBy(entry, i, j)
                    THEN [localShows[i].episodes.items[j] EXCEPT !.watched = TRUE]
                    ELSE localShows[i].episodes.items[j]

\* C25: Mark Watched & Next on a queue whose index is below its length sets
\* the stored episode identified by the current entry to watched, sets the
\* entry's flag and moves the index on by one; Skip moves the index on by
\* one and leaves the stored shows, the history and the flags alone; with
\* the index at or past the length markCurrentQueueEpisodeWatched changes
\* nothing.
C25_MarkAndSkip ==
    [][/\ (markCurrentQueueEpisodeWatched /\ ~NothingCurrent) =>
            /\ StoredMarked(currentQueue.episodes[currentQueueIndex + 1])
            /\ currentQueue'.episodes[currentQueueIndex + 1].watched
            /\ \A i \in 1..Len(currentQueue.episodes) :
                    i # currentQueueIndex + 1 =>
                        currentQueue'.episodes[i] = currentQueue.episodes[i]
            /\ currentQueueIndex' = currentQueueIndex + 1
       /\ SkipEpisode =>
            /\ currentQueueIndex' = currentQueueIndex + 1
            /\ UNCHANGED <<localShows, localHistory, currentQueue>>
       /\ (markCurrentQueueEpisodeWatched /\ NothingCurrent) =>
            UNCHANGED vars]_vars

\* C25 witness: the second entry of a queue has been marked after the first
\* was skipped, and the index is at the length, where a further call of
\* markCurrentQueueEpisodeWatched finds nothing current.
C25_Witness ==
    /\ Truthy(currentQueue)
    /\ Len(currentQueue.episodes) = 2
    /\ currentQueueIndex = 2
    /\ ~currentQueue.episodes[1].watched
    /\ currentQueue.episodes[2].watched
    /\ Len(localHistory) = 1

\* C26: whenever there is a queue the index lies between 0 and the queue's
\* length, and every entry at or behind the index has its flag unset.
C26_IndexInQueue ==
    Truthy(currentQueue) =>
        /\ 0 <= currentQueueIndex
        /\ currentQueueIndex <= Len(currentQueue.episodes)
        /\ \A i \in 1..Len(currentQueue.episodes) :
                i > currentQueueIndex => ~currentQueue.episodes[i].watched

\* C26 witness: a queue of two entries gone through to its end, the first
\* entry marked and the second skipped, with Queue Complete on display.
C26_Witness ==
    /\ Truthy(currentQueue)
    /\ Len(currentQueue.episodes) = 2
    /\ currentQueueIndex = 2
    /\ currentQueue.episodes[1].watched
    /\ ~currentQueue.episodes[2].watched
    /\ view = "complete"

\* C27: handleBuildQueue leaves the queue and the index alone when no
\* stored episode is unwatched; otherwise it calls generateCouchPotatoQueue
\* and installs what that returns, a queue of at least one entry, with the
\* index back at 0.
C27_BuildInstallsQueue ==
    [][/\ (HandleBuildQueue /\ ~hasUnwatchedEpisodes(getShows)) =>
            UNCHANGED <<currentQueue, currentQueueIndex, pc>>
       /\ (HandleBuildQueue /\ hasUnwatchedEpisodes(getShows)) => pc' = "call"
       /\ InstallQueue =>
            /\ Truthy(currentQueue')
            /\ currentQueue'.episodes = queue
            /\ Len(currentQueue'.episodes) >= 1
            /\ currentQueueIndex' = 0]_vars

\* C21: the stored history is newest first: the time of watching of an
\* entry is at least that of every entry behind it, in every state reached
\* by setEpisodeWatched, clearHistory and importAllData in either mode.
C21_NewestFirst ==
    \A i, j \in 1..Len(localHistory) :
        (i < j /\ Truthy(localHistory[i]) /\ Truthy(localHistory[j])) =>
            localHistory[i].watchedAt >= localHistory[j].watchedAt

\* Two titles are the same but for the case of their letters.
SameTitle(a, b) == a = b \/ {a, b} = {"Lost", "LOST"}

\* An imported show whose title differs, but for case, from the title of
\* every show stored before the call.
NotYetStored(show) ==
    /\ HasTitle(show)
    /\ \A i \in 1..Len(outcome.given.shows.items) :
            HasTitle(outcome.given.shows.items[i]) =>
                ~SameTitle(outcome.given.shows.items[i].title.value,
                           show.title.value)

\* The shows and the history entries a file offers.
OfferedShows(data) ==
    IF ~Truthy(data) THEN <<>>
    ELSE IF IsArray(data.shows) THEN data.shows.items ELSE <<>>
OfferedHistory(data) ==
    IF ~Truthy(data) THEN <<>>
    ELSE IF IsArray(data.history) THEN data.history.items ELSE <<>>

\* The stored shows are those stored before the call, each in its position,
\* followed by the offered shows that were not yet stored, and an entry of
\* the history was stored before or is an offered one with a new id.
MergedByTitle ==
    LET before == outcome.given
    IN  /\ localShows =
                before.shows.items
                    \o SelectSeq(OfferedShows(argument.data), NotYetStored)
        /\ \A i \in 1..Len(localHistory) :
            \/ \E j \in 1..Len(before.history.items) :
                    localHistory[i] = before.history.items[j]
            \/ /\ \E j \in 1..Len(OfferedHistory(argument.data)) :
                        localHistory[i] = OfferedHistory(argument.data)[j]
               /\ \A j \in 1..Len(before.history.items) :
                        before.history.items[j].id # localHistory[i].id

MergedNothingElse ==
    LET before == outcome.given
        fresh  == SelectSeq(OfferedShows(argument.data), NotYetStored)
    IN  /\ localShows \in {before.shows.items, before.shows.items \o fresh}
        /\ \A i \in 1..Len(localHistory) :
            \/ \E j \in 1..Len(before.history.items) :
                    localHistory[i] = before.history.items[j]
            \/ \E j \in 1..Len(OfferedHistory(argument.data)) :
                    localHistory[i] = OfferedHistory(argument.data)[j]

C29_FailureWritesNothing ==
    (outcome.fn = "importAllData" /\ ~outcome.success) => Stored = outcome.given

\* C30: importAllData(exportAllData(), false) returns success and leaves
\* what getShows, getHistory and getSettings return as it was.
C30_ExportImportRoundTrip ==
    outcome.fn = "exportImport" =>
        /\ outcome.success
        /\ getShows = outcome.given.shows
        /\ getHistory = outcome.given.history
        /\ getSettings = outcome.given.settings

\* C30 witness: a round trip has succeeded over a library with a show and
\* a history entry and with no settings stored before, which has stored
\* the defaults.
C30_Witness ==
    /\ outcome.fn = "exportImport"
    /\ outcome.success
    /\ localShows # <<>>
    /\ localHistory # <<>>
    /\ localSettings = DEFAULT_SETTINGS

====
